---- MODULE Spec2Model ----
(***************************************************************************)
(* purge-gcloud-app: a model of index.js (fetchVersions, deleteVersions,   *)
(* purgeOldVersionsFor) and of the command-line wrapper run.js.            *)
(*                                                                         *)
(* Time is counted in hours.  An instant is an integer number of hours, a  *)
(* calendar date is an integer number of days; the ISO date of an instant  *)
(* (toISOString().substr(0, 10)) is the instant divided by HoursPerDay.    *)
(* JavaScript values that the code inspects dynamically (typeof, property  *)
(* lookup on a primitive, === null) are records tagged with their type.    *)
(***************************************************************************)
EXTENDS Integers, Sequences, FiniteSets, TLC

VARIABLES
  listing,             \* what `gcloud app versions list` prints on success
  zone,                \* the local time zone of the node process
  clock,               \* the wall clock read by `new Date()`
  entry,               \* "cli" | "api": run.js, or a call of the export
                       \* ("unit": deleteVersions alone, see UnitSpec)
  argv,                \* process.argv of run.js
  given,               \* the options object the caller passed
  options,             \* options after Object.assign with the defaults
  now,                 \* const now = new Date()
  pc,                  \* position of the single thread of control
  versions,            \* const versions = fetchVersions(...)
  candidates,          \* let candidates
  versionsForDays,     \* const versionsForDays = new Map()
  keptRecentVersions,  \* const keptRecentVersions = []
  dOptions,            \* deleteVersions: its first argument
  dVersions,           \* deleteVersions: versions (the remaining ids)
  done,                \* deleteVersions: let done
  trace,               \* history of spawnSync('gcloud', ...) and log(...) calls
  outcome,             \* how purgeOldVersionsFor ended
  stdout,              \* what run.js printed with console.info
  stderr               \* what run.js printed with console.warn

vars == <<listing, zone, clock, entry, argv, given, options, now, pc,
          versions, candidates, versionsForDays, keptRecentVersions, dOptions,
          dVersions, done, trace, outcome, stdout, stderr>>

-----------------------------------------------------------------------------
(* Bounds of the model *)

\* Longest version list the external list call returns.
MaxVersions == 3
\* Longest list of same-day versions handed to the deleter (InitDelete).
MaxIds == 5
\* Dates of the model are 0 .. MaxDay; the clock reads a time on MaxDay.
MaxDay == 2
\* Largest keepMinimum / keepDailyAmount a caller passes explicitly.
MaxKeep == 2

-----------------------------------------------------------------------------
(* Program constants *)

keepMinimumDefault == 20
keepDailyAmountDefault == 7
deleteAtMost == 4
\* toISOString().substr(0, 10) cuts an instant to its UTC calendar date.
HoursPerDay == 24

-----------------------------------------------------------------------------
(* JavaScript values *)

Undefined == [type |-> "undefined"]
Null == [type |-> "null"]
Str(s) == [type |-> "string", val |-> s]
Obj(r) == [type |-> "object", val |-> r]

\* x.k : a property of an object, or of a primitive (a string has no own
\* property named project, service or log, so the lookup gives undefined).
GetProp(x, k) ==
  IF x.type = "object" /\ k \in DOMAIN x.val THEN x.val[k] ELSE Undefined

\* A version id: a string (its characters) or a number.
IdStr(cs) == [type |-> "string", chars |-> cs]
IdNum(cs) == [type |-> "number", chars |-> cs]

\* The two log sinks: the default `(s) => console.info(s)` and a caller's.
DefaultLog == [type |-> "function", val |-> "console.info"]
CallerLog == [type |-> "function", val |-> "callerLog"]

-----------------------------------------------------------------------------
(* Dates *)

\* new Date(v.last_deployed_time.datetime): parse date and hour to an instant.
DateParse(dt) == dt.date * HoursPerDay + dt.hour

\* date.toISOString().substr(0, 10): the UTC calendar date of an instant.
ISODate(t) == t \div HoursPerDay

\* Offset of local time from UTC at UTC instant t: zone.std before the
\* zone's transition, zone.std + zone.delta from the transition on.
LocalTZA(t) == IF t >= zone.at THEN zone.std + zone.delta ELSE zone.std

\* UTC instant of a local time.  A local time skipped or repeated at the
\* transition is read with the offset before the transition (ECMAScript).
UTCOfLocal(l) ==
  IF l - zone.std < zone.at THEN l - zone.std
  ELSE IF l - (zone.std + zone.delta) >= zone.at
       THEN l - (zone.std + zone.delta)
       ELSE l - zone.std

\* d = new Date(t); d.setDate(d.getDate() - i): getDate and setDate work on
\* the LOCAL calendar date and keep the local time of day.
SetDateBack(t, i) == UTCOfLocal((t + LocalTZA(t)) - i * HoursPerDay)

-----------------------------------------------------------------------------
(* Version Classifier: purgeOldVersionsFor, lines 124-184 *)

\* Object.assign({service: 'default', log: (s) => console.info(s)}, options)
MergeOptions(o) ==
  [k \in {"service", "log"} \cup DOMAIN o |->
     IF k \in DOMAIN o THEN o[k]
     ELSE IF k = "service" THEN "default" ELSE DefaultLog]

\* const {keepDailyAmount = keepDailyAmountDefault,
\*        keepMinimum = keepMinimumDefault} = options
KeepDailyAmount(o) ==
  IF "keepDailyAmount" \in DOMAIN o THEN o.keepDailyAmount
  ELSE keepDailyAmountDefault

KeepMinimum(o) ==
  IF "keepMinimum" \in DOMAIN o THEN o.keepMinimum ELSE keepMinimumDefault

\* Expected without the traffic test / without the service test.
ExpectedIgnoringTraffic(v, project, service) ==
  ~ (v.project # project \/ v.service # service)

ExpectedIgnoringService(v, project, service) ==
  ~ (v.project # project \/ v.traffic_split # 0)

\* The test of the first loop: a record that is not skipped by `continue`.
Expected(v, project, service) ==
  ~ (v.project # project \/ v.service # service \/ v.traffic_split # 0)

\* for (const v of versions) { if (...) continue; candidates.push({...}) }
RECURSIVE FilterVersions(_, _, _)
FilterVersions(vs, project, service) ==
  IF vs = <<>> THEN <<>>
  ELSE LET v == Head(vs)
           rest == FilterVersions(Tail(vs), project, service)
       IN IF Expected(v, project, service)
          THEN <<[id |-> v.id,
                  lastDeployed |-> DateParse(v.last_deployed_time)]>> \o rest
          ELSE rest

\* Insert c behind every element deployed at the same time or later.
RECURSIVE InsertDesc(_, _)
InsertDesc(s, c) ==
  IF s = <<>> THEN <<c>>
  ELSE IF Head(s).lastDeployed >= c.lastDeployed
       THEN <<Head(s)>> \o InsertDesc(Tail(s), c)
       ELSE <<c>> \o s

\* candidates.sort(({lastDeployed: a}, {lastDeployed: b}) => b - a):
\* most recent first; Array.prototype.sort is stable.
RECURSIVE SortDesc(_)
SortDesc(s) ==
  IF s = <<>> THEN <<>>
  ELSE InsertDesc(SortDesc(SubSeq(s, 1, Len(s) - 1)), s[Len(s)])

\* for (let i = 0; i < keepDailyAmount; ++i) { ... versionsForDays.set(key, null) }
DayKeys(t, keepDailyAmount) ==
  {ISODate(SetDateBack(t, i)) : i \in 0 .. (keepDailyAmount - 1)}

NewVersionsForDays(t, keepDailyAmount) ==
  [k \in DayKeys(t, keepDailyAmount) |-> Null]

\* One call log(`...`) of a sink: the message, its key (a date, a rank or a
\* status) and the version ids it names.
LogCall(sink, msg, key, ids) ==
  [ev |-> "log", sink |-> sink, msg |-> msg, key |-> key, ids |-> ids]

\* The callback with "day matches a bucket" deciding alone: a version of a
\* day whose bucket is filled is deleted without the recency test.
FilterStepNoFallThrough(st, c, keepMinimum, log) ==
  LET key == ISODate(c.lastDeployed)
  IN IF key \in DOMAIN st.days
     THEN IF st.days[key] = Null
          THEN [st EXCEPT !.days = [st.days EXCEPT ![key] = c.id],
                          !.log = Append(st.log,
                             LogCall(log, "Keeping for", key, <<c.id>>))]
          ELSE [st EXCEPT !.out = Append(st.out, c),
                          !.log = Append(st.log,
                             LogCall(log, "Deleting", 0, <<c.id>>))]
     ELSE IF Len(st.recent) < keepMinimum
          THEN [st EXCEPT !.recent = Append(st.recent, c.id),
                          !.log = Append(st.log,
                             LogCall(log, "Keeping for recent",
                                     Len(st.recent) + 1, <<c.id>>))]
          ELSE [st EXCEPT !.out = Append(st.out, c),
                          !.log = Append(st.log,
                             LogCall(log, "Deleting", 0, <<c.id>>))]

\* The callback with `<=` for `<` in the recency test.
FilterStepOffByOne(st, c, keepMinimum, log) ==
  LET key == ISODate(c.lastDeployed)
  IN IF key \in DOMAIN st.days /\ st.days[key] = Null
     THEN [st EXCEPT !.days = [st.days EXCEPT ![key] = c.id],
                     !.log = Append(st.log,
                        LogCall(log, "Keeping for", key, <<c.id>>))]
     ELSE IF Len(st.recent) <= keepMinimum
          THEN [st EXCEPT !.recent = Append(st.recent, c.id),
                          !.log = Append(st.log,
                             LogCall(log, "Keeping for recent",
                                     Len(st.recent) + 1, <<c.id>>))]
          ELSE [st EXCEPT !.out = Append(st.out, c),
                          !.log = Append(st.log,
                             LogCall(log, "Deleting", 0, <<c.id>>))]

\* One call of the callback of candidates.filter on candidate c.  st holds
\* versionsForDays (days), keptRecentVersions (recent), the candidates the
\* callback returned true for (out) and the log calls made (log).
FilterStep(st, c, keepMinimum, log) ==
  LET key == ISODate(c.lastDeployed)
  IN IF key \in DOMAIN st.days /\ st.days[key] = Null
     THEN [st EXCEPT !.days = [st.days EXCEPT ![key] = c.id],
                     !.log = Append(st.log,
                        LogCall(log, "Keeping for", key, <<c.id>>))]
     ELSE IF Len(st.recent) < keepMinimum
          THEN [st EXCEPT !.recent = Append(st.recent, c.id),
                          !.log = Append(st.log,
                             LogCall(log, "Keeping for recent",
                                     Len(st.recent) + 1, <<c.id>>))]
          ELSE [st EXCEPT !.out = Append(st.out, c),
                          !.log = Append(st.log,
                             LogCall(log, "Deleting", 0, <<c.id>>))]

\* candidates = candidates.filter(callback): the callback on each candidate,
\* first to last.
RECURSIVE FilterCandidates(_, _, _, _)
FilterCandidates(st, cs, keepMinimum, log) ==
  IF cs = <<>> THEN st
  ELSE FilterCandidates(FilterStep(st, Head(cs), keepMinimum, log),
                        Tail(cs), keepMinimum, log)

\* Lines 124-184 as a whole, from the fetched list to the filtered candidates.
Classification(vs, o, t) ==
  FilterCandidates(
    [days |-> NewVersionsForDays(t, KeepDailyAmount(o)),
     recent |-> <<>>, out |-> <<>>, log |-> <<>>],
    SortDesc(FilterVersions(vs, o.project, o.service)),
    KeepMinimum(o), o.log)

-----------------------------------------------------------------------------
(* Batched Deleter: deleteVersions, lines 59-106 *)

StartsWithDash(v) == Len(v.chars) > 0 /\ v.chars[1] = "-"
IncludesBackslash(v) == \E i \in 1 .. Len(v.chars) : v.chars[i] = "\\"

\* The test inside versions.forEach: a version that makes it throw.
BadVersion(v) ==
  v.type # "string" \/ StartsWithDash(v) \/ IncludesBackslash(v)

\* versions.splice(0, deleteAtMost): the removed head and what remains.
SpliceHead(vs) ==
  SubSeq(vs, 1, IF Len(vs) < deleteAtMost THEN Len(vs) ELSE deleteAtMost)
SpliceRest(vs) == SubSeq(vs, Len(SpliceHead(vs)) + 1, Len(vs))

\* The check run on the first chunk only.
AnyBadVersionFirstChunk(vs) ==
  \E i \in 1 .. Len(SpliceHead(vs)) : BadVersion(vs[i])

\* versions.forEach(...) throws on the first bad version of the whole list.
AnyBadVersion(vs) == \E i \in 1 .. Len(vs) : BadVersion(vs[i])

\* candidates.map(({id}) => id)
IdsOf(cs) == [i \in 1 .. Len(cs) |-> cs[i].id]

-----------------------------------------------------------------------------
(* The single thread of control *)

Running == [kind |-> "running"]
Returned(v) == [kind |-> "returned", value |-> v]
Thrown(name, message) == [kind |-> "thrown", name |-> name, message |-> message]
Exited(code) == [kind |-> "exit", code |-> code]

\* One childProcess.spawnSync('gcloud', ['app', '--project', project,
\* 'versions', cmd, ...ids, '--service', service, ...]) and its status.
Spawn(cmd, project, service, ids, status) ==
  [ev |-> "spawn", cmd |-> cmd, project |-> project, service |-> service,
   ids |-> ids, status |-> status]

\* purgeOldVersionsFor(options), lines 114-122: read the clock, merge the
\* defaults into the options.
Enter(o) ==
  /\ given' = o
  /\ options' = MergeOptions(o)
  /\ now' = clock
  /\ pc' = "fetch"

\* run.js: check the argument count, announce, call purgeGcloudApp({project}).
RunMain ==
  /\ pc = "idle" /\ entry = "cli"
  /\ IF Len(argv) # 3
     THEN /\ stderr' = Append(stderr, <<"usage:", argv[2], "<project-id>">>)
          /\ outcome' = Exited(1)
          /\ pc' = "exited"
          /\ UNCHANGED <<given, options, now, stdout>>
     ELSE /\ stdout' = Append(stdout,
                         [text |-> "Deleting old versions for",
                          value |-> Str(argv[3])])
          /\ Enter([project |-> argv[3]])
          /\ UNCHANGED <<outcome, stderr>>
  /\ UNCHANGED <<listing, zone, clock, entry, argv, versions, candidates,
                 versionsForDays, keptRecentVersions, dOptions, dVersions,
                 done, trace>>

\* A program that imports the module calls purgeGcloudApp(options).
ApiCall ==
  /\ pc = "idle" /\ entry = "api"
  /\ Enter(given)
  /\ UNCHANGED <<listing, zone, clock, entry, argv, versions, candidates,
                 versionsForDays, keptRecentVersions, dOptions, dVersions,
                 done, trace, outcome, stdout, stderr>>

\* const versions = fetchVersions(project), line 125 with lines 36-50:
\* fetchVersions destructures {project, service} from its argument, which is
\* the project string.  The list call fails or prints the listing.
FetchVersions ==
  /\ pc = "fetch"
  /\ \E status \in {0, 1} :
       LET arg == Str(options.project)
       IN /\ trace' = Append(trace,
                        Spawn("list", GetProp(arg, "project"),
                              GetProp(arg, "service"), <<>>, status))
          /\ IF status # 0
             THEN /\ outcome' = Thrown("Error", "could not list versions")
                  /\ pc' = "thrown"
                  /\ UNCHANGED versions
             ELSE /\ versions' = listing
                  /\ pc' = "classify"
                  /\ UNCHANGED outcome
  /\ UNCHANGED <<listing, zone, clock, entry, argv, given, options, now,
                 candidates, versionsForDays, keptRecentVersions, dOptions,
                 dVersions, done, stdout, stderr>>

\* Lines 124-184: filter the list, sort it, build the day buckets, keep or
\* mark for deletion.
Classify ==
  /\ pc = "classify"
  /\ LET st == Classification(versions, options, now)
     IN /\ candidates' = st.out
        /\ versionsForDays' = st.days
        /\ keptRecentVersions' = st.recent
        /\ trace' = trace \o st.log
  /\ pc' = "delete"
  /\ UNCHANGED <<listing, zone, clock, entry, argv, given, options, now,
                 versions, dOptions, dVersions, done, outcome, stdout, stderr>>

\* deleteVersions(project, candidates.map(({id}) => id), service), lines
\* 186-190 with lines 59-74: the first argument is bound to `options`, the
\* ids to `versions`; every id is checked before the loop starts.
DeleteVersionsCall ==
  /\ pc = "delete"
  /\ dOptions' = Str(options.project)
  /\ IF AnyBadVersion(IdsOf(candidates))
     THEN /\ outcome' = Thrown("Error", "bad version")
          /\ pc' = "thrown"
          /\ UNCHANGED <<dVersions, done>>
     ELSE /\ done' = 0
          /\ dVersions' = IdsOf(candidates)
          /\ pc' = "deleting"
          /\ UNCHANGED outcome
  /\ UNCHANGED <<listing, zone, clock, entry, argv, given, options, now,
                 versions, candidates, versionsForDays, keptRecentVersions,
                 trace, stdout, stderr>>

\* One turn of `while (versions.length)`, lines 75-104: splice a chunk off,
\* log it, run the delete call, break on a non-zero status.
DeleteChunk ==
  /\ pc = "deleting" /\ dVersions # <<>>
  /\ LET next == SpliceHead(dVersions)
         log == GetProp(dOptions, "log")
     IN /\ dVersions' = SpliceRest(dVersions)
        /\ IF log.type # "function"
           THEN /\ outcome' = Thrown("TypeError", "log is not a function")
                /\ pc' = "thrown"
                /\ UNCHANGED <<trace, done>>
           ELSE \E status \in {0, 1} :
                  LET enacting == LogCall(log, "Enacting deletion", 0, next)
                      call == Spawn("delete", GetProp(dOptions, "project"),
                                    GetProp(dOptions, "service"), next, status)
                  IN /\ IF status # 0
                        THEN /\ trace' = trace \o
                                  <<enacting, call,
                                    LogCall(log, "Could not delete", status,
                                            <<>>)>>
                             /\ pc' = "break"
                             /\ UNCHANGED done
                        ELSE /\ trace' = trace \o <<enacting, call>>
                             /\ done' = done + Len(next)
                             /\ pc' = "deleting"
                     /\ UNCHANGED outcome
  /\ UNCHANGED <<listing, zone, clock, entry, argv, given, options, now,
                 versions, candidates, versionsForDays, keptRecentVersions,
                 dOptions, stdout, stderr>>

\* The loop is left: deleteVersions returns done (line 105), and
\* purgeOldVersionsFor throws if deletions were requested and none completed,
\* else falls off its end (lines 192-196).
DeleteReturn ==
  /\ pc \in {"deleting", "break"}
  /\ pc = "deleting" => dVersions = <<>>
  /\ LET count == done
     IN IF Len(candidates) # 0 /\ count = 0
        THEN /\ outcome' = Thrown("Error", "Deleted 0 versions with error")
             /\ pc' = "thrown"
        ELSE /\ outcome' = Returned(Undefined)
             /\ pc' = "returned"
  /\ UNCHANGED <<listing, zone, clock, entry, argv, given, options, now,
                 versions, candidates, versionsForDays, keptRecentVersions,
                 dOptions, dVersions, done, trace, stdout, stderr>>

\* run.js line 15: console.info('Deleted', deletedVersionCount, 'versions').
RunPrint ==
  /\ pc = "returned" /\ entry = "cli"
  /\ stdout' = Append(stdout, [text |-> "Deleted", value |-> outcome.value])
  /\ pc' = "printed"
  /\ UNCHANGED <<listing, zone, clock, entry, argv, given, options, now,
                 versions, candidates, versionsForDays, keptRecentVersions,
                 dOptions, dVersions, done, trace, outcome, stderr>>

Next ==
  \/ RunMain
  \/ ApiCall
  \/ FetchVersions
  \/ Classify
  \/ DeleteVersionsCall
  \/ DeleteChunk
  \/ DeleteReturn
  \/ RunPrint

-----------------------------------------------------------------------------
(* Inputs: the listing, the caller's options, the clock and the time zone *)

Digit == <<"1", "2", "3", "4", "5", "6", "7", "8", "9">>

\* The id of the k-th listed version: well formed, or malformed in one of
\* the three ways deleteVersions checks for.
GoodId(k) == IdStr(<<"v", Digit[k]>>)
BadId(k) ==
  IF k % 3 = 1 THEN IdStr(<<"-", "v", Digit[k]>>)
  ELSE IF k % 3 = 2 THEN IdStr(<<"v", Digit[k], "\\">>)
  ELSE IdNum(<<Digit[k]>>)

\* One object of the list call's JSON output.
VersionRecord(id, project, service, traffic, date, hour) ==
  [id |-> id, project |-> project, service |-> service,
   traffic_split |-> traffic,
   last_deployed_time |-> [date |-> date, hour |-> hour]]

Noon == HoursPerDay \div 2
UTC == [std |-> 0, at |-> 0, delta |-> 0]
\* A zone 5 hours behind UTC whose clocks go forward 1 hour at 07:00 UTC of
\* the last day (as America/New_York in March), and one 2 hours ahead of UTC
\* whose clocks go back 1 hour at 01:00 UTC of the day before (as
\* Europe/Berlin in October).
SpringForward == [std |-> -5, at |-> MaxDay * HoursPerDay + 7, delta |-> 1]
FallBack == [std |-> 2, at |-> (MaxDay - 1) * HoursPerDay + 1, delta |-> -1]

\* Every record is {project, service, traffic} x one deployment time.
ScopeShapes ==
  {VersionRecord(Null, p, s, t, MaxDay, Noon) :
     p \in {"p", "q"}, s \in {"default", "s2"}, t \in {0, 50}}

\* Every record is in scope and idle; deployment times vary.
TimeShapes ==
  {VersionRecord(Null, "p", "default", 0, d, h) :
     d \in 0 .. MaxDay, h \in {0, HoursPerDay - 1}}

\* Options with every subset of the optional keys.
OptionsOver(services, minimums, dailies, logs) ==
  {[k \in {"project"} \cup ks |->
      IF k = "project" THEN "p"
      ELSE IF k = "service" THEN sv
      ELSE IF k = "keepMinimum" THEN km
      ELSE IF k = "keepDailyAmount" THEN kd
      ELSE lg] :
     ks \in SUBSET {"service", "keepMinimum", "keepDailyAmount", "log"},
     sv \in services, km \in minimums, kd \in dailies, lg \in logs}

InitProgram ==
  /\ pc = "idle"
  /\ options = <<>>
  /\ now = 0
  /\ versions = <<>>
  /\ candidates = <<>>
  /\ versionsForDays = <<>>
  /\ keptRecentVersions = <<>>
  /\ dOptions = Undefined
  /\ dVersions = <<>>
  /\ done = 0
  /\ trace = <<>>
  /\ outcome = Running
  /\ stdout = <<>>
  /\ stderr = <<>>

\* run.js started with no, one or two arguments, or the export called with
\* one of `opts`.
InitEntry(opts) ==
  \/ /\ entry = "cli"
     /\ argv \in {<<"node", "run.js">>, <<"node", "run.js", "p">>,
                  <<"node", "run.js", "p", "x">>}
     /\ given = <<>>
  \/ /\ entry = "api"
     /\ argv = <<>>
     /\ given \in opts

\* A listing of at most n records, the k-th of a shape of `shapes` and with
\* a well-formed id, or (when `bad`) possibly a malformed one.
InitListing(n, shapes, bad) ==
  \E m \in 0 .. n :
    \E shape \in [1 .. m -> shapes] :
      \E wellFormed \in [1 .. m -> IF bad THEN BOOLEAN ELSE {TRUE}] :
        listing = [k \in 1 .. m |->
                     [shape[k] EXCEPT
                        !.id = IF wellFormed[k] THEN GoodId(k) ELSE BadId(k)]]

\* Records in and out of scope, serving and idle; every optional key given
\* or omitted.
Init ==
  /\ InitProgram
  /\ InitEntry(OptionsOver({"s2"}, {0}, {0}, {CallerLog}))
  /\ InitListing(MaxVersions, ScopeShapes, FALSE)
  /\ clock = MaxDay * HoursPerDay + Noon
  /\ zone = UTC

\* Deployment times over several days, retention counts 0 .. MaxKeep, the
\* clock at the first and the last hour of the day, with and without a
\* daylight-saving transition of the local zone.
InitTimes(zones) ==
  /\ InitProgram
  /\ InitEntry({[project |-> "p", keepMinimum |-> km, keepDailyAmount |-> kd] :
                  km \in 0 .. MaxKeep, kd \in 0 .. MaxKeep})
  /\ InitListing(MaxVersions, TimeShapes, FALSE)
  /\ clock \in {MaxDay * HoursPerDay, MaxDay * HoursPerDay + (HoursPerDay - 1)}
  /\ zone \in zones

\* Long lists of deletion candidates: same-day records, nothing retained,
\* ids well formed or not.
InitDelete ==
  /\ InitProgram
  /\ InitEntry({[project |-> "p", keepMinimum |-> 0, keepDailyAmount |-> 0],
                [project |-> "p", keepMinimum |-> 0, keepDailyAmount |-> 0,
                 log |-> CallerLog]})
  /\ InitListing(MaxIds, {VersionRecord(Null, "p", "default", 0, MaxDay, Noon)},
                 TRUE)
  /\ clock = MaxDay * HoursPerDay + Noon
  /\ zone = UTC

Spec == Init /\ [][Next]_vars
ClassifySpec == InitTimes({UTC}) /\ [][Next]_vars
ZoneSpec == InitTimes({UTC, SpringForward, FallBack}) /\ [][Next]_vars
DeleteSpec == InitDelete /\ [][Next]_vars

-----------------------------------------------------------------------------
(* deleteVersions on its own, called as its JSDoc describes: with the merged
   options object and a list of ids.  No run of the program makes this call
   (line 186 passes the project string); UnitSpec shows what lines 59-106
   do when they are given what they expect. *)

UnitCall ==
  /\ pc = "idle" /\ entry = "unit"
  /\ options' = MergeOptions(given)
  /\ versions' = listing
  /\ candidates' = FilterVersions(listing, given.project, "default")
  /\ dOptions' = Obj(MergeOptions(given))
  /\ IF AnyBadVersion(IdsOf(candidates'))
     THEN /\ outcome' = Thrown("Error", "bad version")
          /\ pc' = "thrown"
          /\ UNCHANGED <<dVersions, done>>
     ELSE /\ done' = 0
          /\ dVersions' = IdsOf(candidates')
          /\ pc' = "deleting"
          /\ UNCHANGED outcome
  /\ UNCHANGED <<listing, zone, clock, entry, argv, given, now,
                 versionsForDays, keptRecentVersions, trace, stdout, stderr>>

\* return done, line 105.
UnitReturn ==
  /\ pc \in {"deleting", "break"}
  /\ pc = "deleting" => dVersions = <<>>
  /\ outcome' = Returned([type |-> "number", val |-> done])
  /\ pc' = "returned"
  /\ UNCHANGED <<listing, zone, clock, entry, argv, given, options, now,
                 versions, candidates, versionsForDays, keptRecentVersions,
                 dOptions, dVersions, done, trace, stdout, stderr>>

UnitNext == UnitCall \/ DeleteChunk \/ UnitReturn

InitUnit ==
  /\ InitProgram
  /\ entry = "unit"
  /\ argv = <<>>
  /\ given \in {[project |-> "p"], [project |-> "p", log |-> CallerLog]}
  /\ InitListing(2 * deleteAtMost + 1,
                 {VersionRecord(Null, "p", "default", 0, MaxDay, Noon)}, FALSE)
  /\ clock = MaxDay * HoursPerDay + Noon
  /\ zone = UTC

UnitSpec == InitUnit /\ [][UnitNext]_vars

-----------------------------------------------------------------------------
(* Vocabulary of the properties *)

Range(f) == {f[x] : x \in DOMAIN f}
Num(n) == [type |-> "number", val |-> n]

\* The list call succeeded and lines 124-184 have run.
Classified ==
  \/ pc \in {"delete", "deleting", "break", "returned", "printed"}
  \/ pc = "thrown" /\ outcome.message # "could not list versions"

\* deleteVersions has been entered / the purge has ended.
DeleterEntered == dOptions # Undefined
Ended == pc \in {"returned", "printed", "thrown"}

\* Positions, in the fetched list, of the versions of the configured project
\* and service that serve no traffic; and of the others.
InScope ==
  {j \in 1 .. Len(versions) :
     /\ versions[j].project = options.project
     /\ versions[j].service = options.service
     /\ versions[j].traffic_split = 0}
OutOfScope == (1 .. Len(versions)) \ InScope

IdAt(j) == versions[j].id
DeployedAt(j) ==
  versions[j].last_deployed_time.date * HoursPerDay
    + versions[j].last_deployed_time.hour
DayOf(j) == versions[j].last_deployed_time.date

\* j1 comes before j2 in the descending lastDeployedTime order (versions
\* deployed at the same time stay in the order of the list).
Precedes(j1, j2) ==
  \/ DeployedAt(j1) > DeployedAt(j2)
  \/ DeployedAt(j1) = DeployedAt(j2) /\ j1 < j2

\* Ids kept by the day-bucket rule, by the recency rule, by either; and the
\* ids of the deletion candidates.
BucketKept == Range(versionsForDays) \ {Null}
RecentKept == Range(keptRecentVersions)
Kept == BucketKept \cup RecentKept
CandidateIds == {candidates[i].id : i \in 1 .. Len(candidates)}

\* The day-bucket days of the policy: today and the days before it.
TrailingDays ==
  {(now \div HoursPerDay) - i : i \in 0 .. (KeepDailyAmount(options) - 1)}

\* The external calls made so far, and the delete calls among them.
Calls == SelectSeq(trace, LAMBDA e : e.ev = "spawn")
DeleteCalls == SelectSeq(trace, LAMBDA e : e.ev = "spawn" /\ e.cmd = "delete")

\* An id that must be rejected: not a string, a leading "-", a backslash.
Malformed(id) ==
  \/ id.type # "string"
  \/ (id.chars # <<>> /\ Head(id.chars) = "-")
  \/ "\\" \in Range(id.chars)

-----------------------------------------------------------------------------
(* C1 *)

\* C1: after classification, the kept ids and the deletion candidates are
\* disjoint, and together they are exactly the versions of the configured
\* project and service with traffic split 0, each of them once.
C1_Partition ==
  Classified =>
    /\ Kept \cap CandidateIds = {}
    /\ Kept \cup CandidateIds = {IdAt(j) : j \in InScope}
    /\ Cardinality(Kept) + Len(candidates) = Cardinality(InScope)

C1_Witness ==
  /\ Classified
  /\ Kept # {} /\ CandidateIds # {}
  /\ \E j \in OutOfScope : versions[j].traffic_split # 0
  /\ \E j \in OutOfScope : versions[j].project # options.project

-----------------------------------------------------------------------------
(* C2 *)

\* C2: no version that serves traffic, and no version of another project or
\* service, is ever a deletion candidate, is ever handed to deleteVersions,
\* or is ever named in an external delete call.
C2_NeverOutOfScope ==
  Classified =>
    \A j \in OutOfScope :
      /\ IdAt(j) \notin CandidateIds
      /\ IdAt(j) \notin Range(dVersions)
      /\ \A i \in 1 .. Len(DeleteCalls) : IdAt(j) \notin Range(DeleteCalls[i].ids)

C2_Witness ==
  /\ DeleterEntered
  /\ CandidateIds # {}
  /\ \E j \in OutOfScope : versions[j].traffic_split # 0
  /\ \E j \in OutOfScope : versions[j].service # options.service
  /\ \E j \in OutOfScope : versions[j].project # options.project

-----------------------------------------------------------------------------
(* C3 *)

\* C3: a deletion candidate is preceded, in the descending lastDeployedTime
\* order, by at least keepMinimum kept versions; and with keepMinimum = 2,
\* keepDailyAmount = 1 and exactly three versions, all deployed on today's
\* date, nothing is a deletion candidate.
C3_MinimumRetained ==
  Classified =>
    /\ \A j \in InScope :
         IdAt(j) \in CandidateIds =>
           Cardinality({i \in InScope : Precedes(i, j) /\ IdAt(i) \in Kept})
             >= KeepMinimum(options)
    /\ ( /\ KeepMinimum(options) = 2
         /\ KeepDailyAmount(options) = 1
         /\ Cardinality(InScope) = 3
         /\ \A j \in InScope : DayOf(j) = now \div HoursPerDay )
       => candidates = <<>>

\* The three-versions scenario: the bucket is filled by the most recent one,
\* the two others fall through to the recency rule.
C3_Witness ==
  /\ Classified
  /\ KeepMinimum(options) = 2 /\ KeepDailyAmount(options) = 1
  /\ Cardinality(InScope) = 3
  /\ \A j \in InScope : DayOf(j) = now \div HoursPerDay
  /\ Cardinality(BucketKept) = 1 /\ Cardinality(RecentKept) = 2

-----------------------------------------------------------------------------
(* C4 *)

\* C4: for each of the keepDailyAmount trailing days (today and the days
\* before it) on which a version was deployed, exactly one version of that
\* day is kept by the day-bucket rule, the one deployed last; no version of
\* another day is kept by that rule; with keepDailyAmount = 0 none is.
C4_OnePerTrailingDay ==
  Classified =>
    /\ \A d \in TrailingDays :
         LET ofDay == {j \in InScope : DayOf(j) = d}
             kept == {j \in ofDay : IdAt(j) \in BucketKept}
         IN ofDay # {} =>
              /\ Cardinality(kept) = 1
              /\ \A j \in kept : \A i \in ofDay : DeployedAt(j) >= DeployedAt(i)
    /\ \A j \in InScope : IdAt(j) \in BucketKept => DayOf(j) \in TrailingDays
    /\ KeepDailyAmount(options) = 0 => BucketKept = {}

\* The same statement in a run whose local zone has no transition.
C4_WithoutTransition == zone.delta = 0 => C4_OnePerTrailingDay

-----------------------------------------------------------------------------
(* C9 *)

\* C9: at most keepMinimum versions are kept by the recency rule; a version
\* not kept by the day-bucket rule is kept by the recency rule exactly when
\* fewer than keepMinimum such versions precede it; with keepMinimum = 0
\* none is, and with keepDailyAmount = 0 too every version in scope is a
\* deletion candidate.
C9_RecencyRule ==
  Classified =>
    LET free == {j \in InScope : IdAt(j) \notin BucketKept}
    IN /\ Len(keptRecentVersions) <= KeepMinimum(options)
       /\ Cardinality(RecentKept) = Len(keptRecentVersions)
       /\ \A j \in free :
            IdAt(j) \in RecentKept <=>
              Cardinality({i \in free : Precedes(i, j)}) < KeepMinimum(options)
       /\ KeepMinimum(options) = 0 => keptRecentVersions = <<>>
       /\ (KeepMinimum(options) = 0 /\ KeepDailyAmount(options) = 0)
            => CandidateIds = {IdAt(j) : j \in InScope}

C9_Witness ==
  /\ Classified
  /\ KeepMinimum(options) > 0
  /\ Len(keptRecentVersions) = KeepMinimum(options)
  /\ BucketKept # {}
  /\ candidates # <<>>

-----------------------------------------------------------------------------
(* C5 *)

\* Number of versions in the delete calls that succeeded.
RECURSIVE Deleted(_)
Deleted(cs) ==
  IF cs = <<>> THEN 0
  ELSE (IF Head(cs).status = 0 THEN Len(Head(cs).ids) ELSE 0) + Deleted(Tail(cs))

\* C5: when deleteVersions has ended on a list of L well-formed ids, its
\* delete calls were made on the consecutive chunks of at most deleteAtMost
\* ids; if none failed there were ceil(L / deleteAtMost) of them and done = L;
\* if the k-th was the first to fail it was the last, and
\* done = (k - 1) * deleteAtMost.
C5_Batches ==
  (DeleterEntered /\ Ended /\ \A i \in 1 .. Len(candidates) : ~ Malformed(candidates[i].id)) =>
    LET L == Len(candidates)
        n == Len(DeleteCalls)
        failed == {k \in 1 .. n : DeleteCalls[k].status # 0}
    IN /\ \A k \in 1 .. n :
            DeleteCalls[k].ids =
              [i \in 1 .. (IF k * deleteAtMost <= L THEN deleteAtMost
                           ELSE L - (k - 1) * deleteAtMost) |->
                 candidates[(k - 1) * deleteAtMost + i].id]
       /\ failed = {} =>
            /\ n = (L + deleteAtMost - 1) \div deleteAtMost
            /\ done = L
       /\ failed # {} =>
            \E k \in failed :
              /\ \A k2 \in failed : k <= k2
              /\ n = k
              /\ done = (k - 1) * deleteAtMost

\* Nine ids, the third delete call fails: three calls, 8 versions deleted.
C5_NineIdsThirdFails ==
  /\ pc = "returned" /\ Len(candidates) = 9
  /\ Len(DeleteCalls) = 3
  /\ DeleteCalls[1].status = 0 /\ DeleteCalls[2].status = 0
  /\ DeleteCalls[3].status # 0
  /\ outcome.value = [type |-> "number", val |-> 8]

-----------------------------------------------------------------------------
(* C6 *)

\* C6: when the list handed to deleteVersions holds a malformed id, at any
\* position, the run has ended with the error "bad version" and no external
\* delete call was made.
C6_Rejected ==
  (DeleterEntered /\ \E i \in 1 .. Len(candidates) : Malformed(candidates[i].id)) =>
    /\ pc = "thrown"
    /\ outcome = Thrown("Error", "bad version")
    /\ DeleteCalls = <<>>

\* The only malformed id lies behind the first chunk of deleteAtMost ids.
C6_Witness ==
  /\ DeleterEntered
  /\ Len(candidates) > deleteAtMost
  /\ \A i \in 1 .. deleteAtMost : ~ Malformed(candidates[i].id)
  /\ Malformed(candidates[deleteAtMost + 1].id)
  /\ outcome = Thrown("Error", "bad version")

-----------------------------------------------------------------------------
(* C7 *)

\* C7: a purge that ends without error returns the number of versions
\* deleted (the sizes of the chunks whose delete call succeeded, 0 without
\* candidates), and run.js prints that number.
C7_ReturnsCount ==
  /\ outcome.kind = "returned" => outcome.value = Num(Deleted(DeleteCalls))
  /\ pc = "printed" => stdout[Len(stdout)].value = Num(Deleted(DeleteCalls))

-----------------------------------------------------------------------------
(* C8 *)

\* C8: after a successful list call and with well-formed ids, the run ends
\* in an error exactly when there are deletion candidates and the first
\* delete call failed; without candidates it ends without error and without
\* a delete call.
C8_ErrorExactly ==
  (Classified /\ Ended /\ \A i \in 1 .. Len(candidates) : ~ Malformed(candidates[i].id)) =>
    /\ pc = "thrown" <=>
         /\ candidates # <<>>
         /\ DeleteCalls # <<>>
         /\ DeleteCalls[1].status # 0
    /\ candidates = <<>> => (pc # "thrown" /\ DeleteCalls = <<>>)

-----------------------------------------------------------------------------
(* C10 *)

\* C10: every external call is given the configured project and the
\* configured service ("default" when omitted); deleteVersions logs to the
\* configured sink, and each delete call directly follows the log call that
\* names its ids; keepMinimum and keepDailyAmount default to 20 and 7.
C10_CallArguments ==
  pc \notin {"idle", "exited"} =>
    /\ \A i \in 1 .. Len(Calls) :
         /\ Calls[i].project = Str(options.project)
         /\ Calls[i].service = Str(options.service)
    /\ "service" \notin DOMAIN given => options.service = "default"
    /\ "keepMinimum" \notin DOMAIN given => KeepMinimum(options) = 20
    /\ "keepDailyAmount" \notin DOMAIN given => KeepDailyAmount(options) = 7
    /\ DeleterEntered => GetProp(dOptions, "log") = options.log
    /\ \A i \in 1 .. Len(trace) :
         (trace[i].ev = "spawn" /\ trace[i].cmd = "delete") =>
           /\ i > 1
           /\ trace[i - 1] = LogCall(options.log, "Enacting deletion", 0, trace[i].ids)

\* The part of C10 about the list call alone.
C10_ListCallArguments ==
  \A i \in 1 .. Len(Calls) :
    Calls[i].cmd = "list" =>
      /\ Calls[i].project = Str(options.project)
      /\ Calls[i].service = Str(options.service)

\* The part of C10 about the sink handed to deleteVersions.
C10_DeleterLogSink ==
  DeleterEntered => GetProp(dOptions, "log") = options.log

====
